---- MODULE Spec2Model ----
(***************************************************************************)
(* Event-to-record translation of src/shared/analytics/                    *)
(* analytics.background.ts: the handlers trackAppEvents registers on the   *)
(* emitter, the records they hand to sendToMetabase, the callbacks they    *)
(* submit to onIdle and the transactionSent handlers suspended at          *)
(* `await networksStore.load()`.                                           *)
(*                                                                         *)
(* JSON scalars are written as strings: Null and Undefined are the two     *)
(* JavaScript empty values, "true"/"false" the booleans, "[]" the empty    *)
(* array.  An object is a function from its keys to its values, so that a  *)
(* missing key is a key outside DOMAIN.                                    *)
(***************************************************************************)
EXTENDS Integers, Sequences, FiniteSets, TLC

VARIABLES
    user,          \* account.getUser()?.id : a user id, or Undefined
    walletLoaded,  \* whether the current wallet holds a record
    prefs,         \* the global preferences' wallet-name flags
    idleQueue,     \* callbacks submitted to onIdle and not yet run
    awaiting,      \* transactionSent handlers suspended at the await
    nEvents,       \* number of events emitted so far
    handled,       \* the event (or callback) the last step ran
    outcome,       \* how that run ended
    dispatched     \* the sendToMetabase calls of the last step, in order

vars == <<user, walletLoaded, prefs, idleQueue, awaiting, nEvents,
          handled, outcome, dispatched>>

-----------------------------------------------------------------------------
(* Bounds *)

MaxEvents == 2

-----------------------------------------------------------------------------
(* JavaScript values *)

Null == "<null>"

Undefined == "<undefined>"

\* { ...a, ...b }: the keys of both, b's value where both have the key
Spread(a, b) ==
    [k \in (DOMAIN a) \cup (DOMAIN b) |-> IF k \in DOMAIN b THEN b[k] ELSE a[k]]

\* obj.key, undefined when obj has no such key
Get(obj, key) == IF key \in DOMAIN obj THEN obj[key] ELSE Undefined

\* a value used as a condition
Truthy(v) == v \notin {Null, Undefined, "", "false"}

HexDigit == <<"0", "1", "2", "3", "4", "5", "6", "7",
              "8", "9", "a", "b", "c", "d", "e", "f">>

RECURSIVE HexDigits(_)
HexDigits(n) ==
    IF n < 16 THEN HexDigit[n + 1]
    ELSE HexDigits(n \div 16) \o HexDigit[(n % 16) + 1]

\* ethers.utils.hexValue of a number: "0x" and the hex digits, no leading zero
HexValue(n) == "0x" \o HexDigits(n)

RECURSIVE DecimalString(_)
\* BigNumber.toString(): the decimal digits
DecimalString(n) ==
    IF n < 10 THEN HexDigit[n + 1]
    ELSE DecimalString(n \div 10) \o HexDigit[(n % 10) + 1]

-----------------------------------------------------------------------------
(* new URL(s): the strings the parser accepts are scheme "://" host, then  *)
(* an optional path, query and fragment; the scheme and the host are       *)
(* lower-cased, an empty path becomes "/".  Anything else is a TypeError.  *)

SchemeSpellings == [https |-> {"https", "HTTPS"},
                    chromeExt |-> {"chrome-extension"}]

SchemeName == [https |-> "https", chromeExt |-> "chrome-extension"]

Hosts == {"dapp.com", "ext"}

Paths == {"", "/", "/swap", "/popup.html"}

Searches == {"", "?q=1"}

Hashes == {"", "#f"}

URLRecords ==
    UNION { [scheme : {s}, spelling : SchemeSpellings[s], host : Hosts,
             path : Paths, search : Searches, hash : Hashes]
            : s \in DOMAIN SchemeSpellings }

Href(u) == u.spelling \o "://" \o u.host \o u.path \o u.search \o u.hash

\* what the parser makes of each string it accepts
URLOfString ==
    [s \in {Href(u) : u \in URLRecords} |->
        LET u == CHOOSE v \in URLRecords : Href(v) = s
        IN  [origin   |-> SchemeName[u.scheme] \o "://" \o u.host,
             pathname |-> IF u.path = "" THEN "/" ELSE u.path]]

CanParse(s) == s \in DOMAIN URLOfString

ParseURL(s) == URLOfString[s]

\* globalThis.location.origin of the running extension
LocationOrigin == "chrome-extension://ext"

\* src/background/constants: the reserved origin of wallet-internal actions
INTERNAL_ORIGIN == "INTERNAL_ORIGIN"

-----------------------------------------------------------------------------
(* Collaborators of the translators *)

Addresses == {"0xA", "0xB"}

\* the wallet record: "0xA" belongs to a hardware group, "0xB" to no group
GroupOfAddress == [a \in Addresses |-> IF a = "0xA" THEN "ledgerGroup" ELSE Null]

\* apiLayer.getWalletGroupByAddressSync: the group, null when the wallet
\* holds no record or no group holds the address
GetWalletGroupByAddressSync(address) ==
    IF walletLoaded THEN GroupOfAddress[address] ELSE Null

\* getProviderNameFromGroup: the provider of a group, null for no group
GetProviderNameFromGroup(group) ==
    IF group = Null THEN Null ELSE "ledger"

\* getProviderForMetabase: the metrics sink's name of a provider
GetProviderForMetabase(provider) ==
    IF provider = Null THEN Null ELSE "Ledger"

QueryWalletProvider(address) ==
    GetProviderNameFromGroup(GetWalletGroupByAddressSync(address))

\* a lookup that falls back to a default provider name instead of null
GetProviderDefaulted(address) ==
    IF QueryWalletProvider(address) = Null THEN "Unknown"
    ELSE GetProviderForMetabase(QueryWalletProvider(address))

GetProvider(address) == GetProviderForMetabase(QueryWalletProvider(address))

\* createParams of ./analytics: the caller's fields, an undefined value
\* written as null, and user_id from the userId given (null without one)
CreateBaseParams(params) ==
    LET norm(v) == IF v = Undefined THEN Null ELSE v
    IN  Spread([k \in (DOMAIN params) \ {"userId"} |-> norm(params[k])],
               [user_id |-> norm(Get(params, "userId"))])

GetUserId == user

\* the createParams of trackAppEvents: createBaseParams with the session's user
CreateParams(params) == CreateBaseParams(Spread(params, [userId |-> GetUserId]))

\* sendToMetabase(name, params): one call of the metrics sink
SendToMetabase(name, params) == [name |-> name, params |-> params]

\* networksStore.load() then getChainById(chainId)?.toString()
KnownChains == [c \in {"0x1"} |-> "ethereum"]

GetChainById(chainId) ==
    IF chainId \in DOMAIN KnownChains THEN KnownChains[chainId] ELSE Undefined

\* addressActionToAnalytics({addressAction, quote}): the fields of the action
AddressActionToAnalytics(addressAction) ==
    IF addressAction = Null
    THEN [action_type |-> Null, asset_amount_sent |-> "[]"]
    ELSE [action_type |-> addressAction, asset_amount_sent |-> "[1]"]

Keys == {"a.com", "b.com"}

KeyOrder == <<"a.com", "b.com">>

Flags == [Keys -> BOOLEAN]

\* getWalletNameFlagsChange(state, prevState): the keys whose flag went
\* false -> true, and those whose flag went true -> false
GetWalletNameFlagsChange(state, prevState) ==
    [enabled  |-> SelectSeq(KeyOrder, LAMBDA k : state[k] /\ ~prevState[k]),
     disabled |-> SelectSeq(KeyOrder, LAMBDA k : prevState[k] /\ ~state[k])]

\* how a run of a handler ends
Returned(out) == [outcome |-> "returned", out |-> out]

Threw == [outcome |-> "threw", out |-> <<>>]

Rejected == [outcome |-> "rejected", out |-> <<>>]

Suspended == [outcome |-> "suspended", out |-> <<>>]

-----------------------------------------------------------------------------
(* The handlers of trackAppEvents: what one run hands to sendToMetabase    *)
(* and how it ends                                                          *)

\* the dappConnection handler built with the identity-bearing createParams
OnDappConnectionWithUser(data) ==
    Returned(<<SendToMetabase("dapp_connection", CreateParams(
        [request_name    |-> "dapp_connection",
         dapp_domain     |-> data.origin,
         wallet_address  |-> data.address,
         wallet_provider |-> GetProvider(data.address)]))>>)

OnDappConnection(data) ==
    Returned(<<SendToMetabase("dapp_connection", CreateBaseParams(
        [request_name    |-> "dapp_connection",
         dapp_domain     |-> data.origin,
         wallet_address  |-> data.address,
         wallet_provider |-> GetProvider(data.address)]))>>)

OnScreenView(data) ==
    Returned(<<SendToMetabase("screen_view", CreateBaseParams(
        [request_name         |-> "screen_view",
         wallet_address       |-> Get(data, "address"),
         wallet_provider      |-> IF Truthy(Get(data, "address"))
                                  THEN GetProvider(data.address) ELSE Null,
         screen_name          |-> data.pathname,
         previous_screen_name |-> data.previous,
         screen_size          |-> data.screenSize]))>>)

\* ({ event_name, ...data }): data is the event without its event_name, and
\* is spread after the three fields the handler writes
OnDaylightAction(event) ==
    LET data == [k \in (DOMAIN event) \ {"event_name"} |-> event[k]]
    IN  Returned(<<SendToMetabase("daylight_action", CreateBaseParams(
            Spread([request_name   |-> "daylight_action",
                    wallet_address |-> Get(data, "address"),
                    event_name     |-> event.event_name],
                   data)))>>)

\* a screen name that tests the parsed path instead of the string
ScreenNameByPath(origin, initiator, pathname) ==
    IF pathname = "/" THEN "Transaction Request" ELSE pathname

\* origin === initiator ? 'Transaction Request' : pathname
ScreenName(origin, initiator, pathname) ==
    IF origin = initiator THEN "Transaction Request" ELSE pathname

\* globalThis.location.origin === origin ? 'Extension' : 'External Dapp'
Context(origin) ==
    IF LocationOrigin = origin THEN "Extension" ELSE "External Dapp"

\* a dapp_domain that is the origin for the extension's own pages too
DappDomainAlways(origin) == origin

\* globalThis.location.origin === origin ? null : origin
DappDomain(origin) ==
    IF LocationOrigin = origin THEN Null ELSE origin

\* transactionSent up to `await networksStore.load()`: new URL(initiator)
OnTransactionSent(event) ==
    IF ~CanParse(event.initiator) THEN Rejected ELSE Suspended

\* transactionSent after the await
ResumeTransactionSent(event) ==
    LET initiatorURL == ParseURL(event.initiator)
        origin       == initiatorURL.origin
        pathname     == initiatorURL.pathname
        transaction  == event.transaction
    IN  IF "chainId" \notin DOMAIN transaction THEN Rejected
        ELSE IF "gasLimit" \notin DOMAIN transaction THEN Rejected
        ELSE
        LET chainId == HexValue(transaction.chainId)
            chain   == IF Truthy(GetChainById(chainId))
                       THEN GetChainById(chainId) ELSE chainId
        IN  Returned(<<SendToMetabase("signed_transaction", CreateBaseParams(
                Spread([request_name      |-> "signed_transaction",
                        screen_name       |-> ScreenName(origin, event.initiator,
                                                         pathname),
                        wallet_address    |-> transaction.from,
                        wallet_provider   |-> GetProvider(transaction.from),
                        context           |-> Context(origin),
                        type              |-> "sign",
                        dapp_domain       |-> DappDomain(origin),
                        chain             |-> chain,
                        gas               |-> DecimalString(transaction.gasLimit),
                        hash              |-> transaction.hash,
                        asset_amount_sent |-> "[]",
                        gas_price         |-> Null,
                        network_fee       |-> Null,
                        network_fee_value |-> event.feeValueCommon],
                       AddressActionToAnalytics(event.addressAction))))>>)

EventToMethod == [typedDataSigned |-> "_signTypedData",
                  messageSigned   |-> "signMessage"]

\* a guard that lets internal actions through
IsInternalNever(initiator) == FALSE

\* initiator === INTERNAL_ORIGIN
IsInternal(initiator) == initiator = INTERNAL_ORIGIN

HandleSign(type, initiator, address) ==
    IF IsInternal(initiator) THEN Returned(<<>>)
    ELSE IF ~CanParse(initiator) THEN Threw
    ELSE
    LET origin == ParseURL(initiator).origin
    IN  Returned(<<SendToMetabase("signed_message", CreateBaseParams(
            [request_name    |-> "signed_message",
             type            |-> IF type \in DOMAIN EventToMethod
                                 THEN EventToMethod[type]
                                 ELSE "unexpected type",
             wallet_address  |-> address,
             address         |-> address,
             wallet_provider |-> GetProvider(address),
             context         |-> Context(origin),
             dapp_domain     |-> DappDomain(origin)]))>>)

OnTypedDataSigned(data) ==
    HandleSign("typedDataSigned", data.initiator, data.address)

OnMessageSigned(data) ==
    HandleSign("messageSigned", data.initiator, data.address)

\* a pattern that binds the last element of values
LastOfValues(values) ==
    IF Len(values) = 0 THEN Undefined ELSE values[Len(values)]

\* the pattern [network]: the first element of values, undefined when
\* values is empty
FirstOfValues(values) ==
    IF Len(values) = 0 THEN Undefined ELSE values[1]

\* ({ values: [network], origin }): network.external_id throws when network
\* is undefined
OnAddEthereumChain(data) ==
    IF Len(data.values) = 0 THEN Threw
    ELSE
    LET network == FirstOfValues(data.values)
        symbol  == IF "native_asset" \in DOMAIN network
                   THEN network.native_asset.symbol ELSE Undefined
    IN  Returned(<<SendToMetabase("add_custom_evm", CreateParams(
            [request_name                |-> "add_custom_evm",
             source                      |-> data.origin,
             network_external_id         |-> network.external_id,
             network_rpc_url_internal    |-> network.rpc_url_internal,
             network_name                |-> network.name,
             network_native_asset_symbol |-> IF Truthy(symbol) THEN symbol
                                             ELSE Null,
             network_explorer_home_url   |-> network.explorer_home_url]))>>)

\* the callback globalPreferencesChange gives to onIdle, closed over the
\* event's own state and prevState
MetamaskModeAlwaysEnabled(key, enabled) ==
    SendToMetabase("metamask_mode", CreateParams(
        [request_name |-> "metamask_mode",
         enabled      |-> "true",
         dapp_domain  |-> key]))

\* the body of both forEach callbacks
MetamaskMode(key, enabled) ==
    SendToMetabase("metamask_mode", CreateParams(
        [request_name |-> "metamask_mode",
         enabled      |-> enabled,
         dapp_domain  |-> key]))

IdleCallback(state, prevState) ==
    LET change        == GetWalletNameFlagsChange(state, prevState)
        newlyEnabled  == change.enabled
        newlyDisabled == change.disabled
    IN  Returned(
            [i \in 1..Len(newlyEnabled) |-> MetamaskMode(newlyEnabled[i], "true")]
            \o [i \in 1..Len(newlyDisabled) |->
                    MetamaskMode(newlyDisabled[i], "false")])

\* onIdle(callback): the callback joins those waiting for the host to be idle
OnIdle(queue, callback) == Append(queue, callback)

\* a handler that keeps only the latest callback
OnGlobalPreferencesChangeReplacing(state, prevState) ==
    [queue |-> <<[state |-> state, prevState |-> prevState]>>,
     out   |-> <<>>]

\* globalPreferencesChange: only submits the callback
OnGlobalPreferencesChange(state, prevState) ==
    [queue |-> OnIdle(idleQueue, [state |-> state, prevState |-> prevState]),
     out   |-> <<>>]

-----------------------------------------------------------------------------
(* The events the emitter delivers *)

DappConnectionEvents == [origin : {"https://dapp.com"}, address : Addresses]

ScreenViewEvents ==
    {[pathname |-> "/overview", previous |-> Null, screenSize |-> "400x600"]}
    \cup [address : Addresses, pathname : {"/overview"}, previous : {"/"},
          screenSize : {"400x600"}]

DaylightActionEvents ==
    {[event_name |-> "open", address |-> "0xA"],
     [event_name |-> "open", address |-> "0xA", request_name |-> "spoofed"],
     [event_name |-> "open", address |-> "0xB", userId |-> "u9"]}

OkTransaction ==
    [chainId |-> 1, gasLimit |-> 21000, from |-> "0xA", hash |-> "0xh1"]

TransactionSentEvents ==
    [initiator : {"https://dapp.com", "https://dapp.com/", "https://dapp.com?q=1",
                  "https://dapp.com#f", "chrome-extension://ext/popup.html",
                  "dapp.com"},
     transaction : {OkTransaction}, feeValueCommon : {Null},
     addressAction : {Null}]
    \cup
    [initiator : {"https://dapp.com/swap"},
     transaction : {[chainId |-> 1337, gasLimit |-> 21000, from |-> "0xB",
                     hash |-> "0xh2"],
                    [chainId |-> 1, from |-> "0xA", hash |-> "0xh3"],
                    [gasLimit |-> 21000, from |-> "0xA", hash |-> "0xh4"]},
     feeValueCommon : {"0.5"}, addressAction : {"swap"}]

SignInitiators ==
    {INTERNAL_ORIGIN, "https://dapp.com", "chrome-extension://ext/popup.html",
     "not a url"}

SignEvents ==
    [initiator : SignInitiators, address : {"0xA"}]
    \cup [initiator : {"https://dapp.com"}, address : Addresses]

Networks ==
    {[external_id |-> "0x89", rpc_url_internal |-> "https://rpc1", name |-> "Polygon",
      native_asset |-> [symbol |-> "MATIC"], explorer_home_url |-> "https://scan1"],
     [external_id |-> "0x539", rpc_url_internal |-> "https://rpc2", name |-> "Local",
      explorer_home_url |-> "https://scan2"]}

Polygon == CHOOSE n \in Networks : "native_asset" \in DOMAIN n

Local == CHOOSE n \in Networks : "native_asset" \notin DOMAIN n

AddEthereumChainEvents ==
    [values : {<<>>, <<Polygon>>, <<Local>>, <<Polygon, Local>>,
               <<Local, Polygon>>},
     origin : {"https://dapp.com"}]

Users == {Undefined, "u1"}

NoEvent == [kind |-> "none"]

-----------------------------------------------------------------------------
(* The state machine *)

Init ==
    /\ user \in Users
    /\ walletLoaded \in BOOLEAN
    /\ prefs \in Flags
    /\ idleQueue = <<>>
    /\ awaiting = <<>>
    /\ nEvents = 0
    /\ handled = NoEvent
    /\ outcome = "none"
    /\ dispatched = <<>>

\* the emitter calls the handler of `kind` with `data`, which runs as `run`
Deliver(kind, data, run) ==
    /\ nEvents < MaxEvents
    /\ nEvents' = nEvents + 1
    /\ handled' = [kind |-> kind, data |-> data]
    /\ outcome' = run.outcome
    /\ dispatched' = run.out

DappConnection(data) ==
    /\ Deliver("dappConnection", data, OnDappConnection(data))
    /\ UNCHANGED <<user, walletLoaded, prefs, idleQueue, awaiting>>

ScreenView(data) ==
    /\ Deliver("screenView", data, OnScreenView(data))
    /\ UNCHANGED <<user, walletLoaded, prefs, idleQueue, awaiting>>

DaylightAction(data) ==
    /\ Deliver("daylightAction", data, OnDaylightAction(data))
    /\ UNCHANGED <<user, walletLoaded, prefs, idleQueue, awaiting>>

TransactionSent(data) ==
    /\ Deliver("transactionSent", data, OnTransactionSent(data))
    /\ awaiting' = IF OnTransactionSent(data).outcome = "suspended"
                   THEN Append(awaiting, data)
                   ELSE awaiting
    /\ UNCHANGED <<user, walletLoaded, prefs, idleQueue>>

\* networksStore.load() settles and a suspended transactionSent goes on
TransactionSentResumed(i) ==
    /\ awaiting' = [j \in 1..(Len(awaiting) - 1) |->
                        IF j < i THEN awaiting[j] ELSE awaiting[j + 1]]
    /\ handled' = [kind |-> "transactionSentResumed", data |-> awaiting[i]]
    /\ outcome' = ResumeTransactionSent(awaiting[i]).outcome
    /\ dispatched' = ResumeTransactionSent(awaiting[i]).out
    /\ UNCHANGED <<user, walletLoaded, prefs, idleQueue, nEvents>>

TypedDataSigned(data) ==
    /\ Deliver("typedDataSigned", data, OnTypedDataSigned(data))
    /\ UNCHANGED <<user, walletLoaded, prefs, idleQueue, awaiting>>

MessageSigned(data) ==
    /\ Deliver("messageSigned", data, OnMessageSigned(data))
    /\ UNCHANGED <<user, walletLoaded, prefs, idleQueue, awaiting>>

AddEthereumChain(data) ==
    /\ Deliver("addEthereumChain", data, OnAddEthereumChain(data))
    /\ UNCHANGED <<user, walletLoaded, prefs, idleQueue, awaiting>>

\* the preferences store changes to `state` and emits (state, prevState)
GlobalPreferencesChange(state) ==
    LET run == OnGlobalPreferencesChange(state, prefs)
    IN  /\ Deliver("globalPreferencesChange",
                   [state |-> state, prevState |-> prefs],
                   [outcome |-> "returned", out |-> run.out])
        /\ idleQueue' = run.queue
        /\ prefs' = state
        /\ UNCHANGED <<user, walletLoaded, awaiting>>

\* the host is idle: the callback submitted first runs
RunIdleCallback ==
    /\ idleQueue # <<>>
    /\ LET callback == Head(idleQueue)
           run      == IdleCallback(callback.state, callback.prevState)
       IN  /\ handled' = [kind |-> "idleCallback", data |-> callback]
           /\ outcome' = run.outcome
           /\ dispatched' = run.out
    /\ idleQueue' = Tail(idleQueue)
    /\ UNCHANGED <<user, walletLoaded, prefs, awaiting, nEvents>>

\* a user logs in or out of the account
UserChange(u) ==
    /\ u # user
    /\ user' = u
    /\ handled' = NoEvent
    /\ outcome' = "none"
    /\ dispatched' = <<>>
    /\ UNCHANGED <<walletLoaded, prefs, idleQueue, awaiting, nEvents>>

\* the wallet record is loaded or dropped
WalletChange ==
    /\ walletLoaded' = ~walletLoaded
    /\ handled' = NoEvent
    /\ outcome' = "none"
    /\ dispatched' = <<>>
    /\ UNCHANGED <<user, prefs, idleQueue, awaiting, nEvents>>

\* the steps of the handlers that run to their end when called
SyncNext ==
    \/ \E data \in DappConnectionEvents : DappConnection(data)
    \/ \E data \in ScreenViewEvents : ScreenView(data)
    \/ \E data \in DaylightActionEvents : DaylightAction(data)
    \/ \E data \in SignEvents : TypedDataSigned(data)
    \/ \E data \in SignEvents : MessageSigned(data)
    \/ \E data \in AddEthereumChainEvents : AddEthereumChain(data)
    \/ \E state \in Flags : GlobalPreferencesChange(state)
    \/ RunIdleCallback
    \/ \E u \in Users : UserChange(u)
    \/ WalletChange

Next ==
    \/ SyncNext
    \/ \E data \in TransactionSentEvents : TransactionSent(data)
    \/ \E i \in 1..Len(awaiting) : TransactionSentResumed(i)

Spec == Init /\ [][Next]_vars

\* The idle queue under the handlers that touch it or run between a
\* submission and its callback; transactionSent and its continuation neither
\* read nor write the queue.  A callback given to onIdle is not starved: the
\* host becomes idle.
FairSpec == Init /\ [][SyncNext]_vars /\ WF_vars(RunIdleCallback)

-----------------------------------------------------------------------------
(* Properties *)

IsSign == handled.kind \in {"messageSigned", "typedDataSigned"}

IsResumed == handled.kind = "transactionSentResumed"

Indices == 1..Len(dispatched)

\* the fixed record name of the rule that runs for each kind of step
RuleName ==
    [dappConnection          |-> "dapp_connection",
     screenView              |-> "screen_view",
     daylightAction          |-> "daylight_action",
     transactionSent         |-> "signed_transaction",
     transactionSentResumed  |-> "signed_transaction",
     messageSigned           |-> "signed_message",
     typedDataSigned         |-> "signed_message",
     addEthereumChain        |-> "add_custom_evm",
     globalPreferencesChange |-> "metamask_mode",
     idleCallback            |-> "metamask_mode"]

\* C1: a messageSigned or typedDataSigned event whose initiator is
\* INTERNAL_ORIGIN ends normally with no record dispatched; with any other
\* initiator that parses as a URL it dispatches exactly one record, named
\* signed_message.
C1_InternalSigningSuppressed ==
    IsSign =>
        IF handled.data.initiator = INTERNAL_ORIGIN
        THEN outcome = "returned" /\ dispatched = <<>>
        ELSE CanParse(handled.data.initiator) =>
                /\ outcome = "returned"
                /\ Len(dispatched) = 1
                /\ dispatched[1].name = "signed_message"
                /\ dispatched[1].params.request_name = "signed_message"

\* an internal signature made after another event
C1_Witness ==
    /\ IsSign
    /\ handled.data.initiator = INTERNAL_ORIGIN
    /\ nEvents = 2
    /\ dispatched = <<>>

\* the fields of network `n` an add_custom_evm record carries
NetworkFields(n) ==
    [network_external_id         |-> n.external_id,
     network_rpc_url_internal    |-> n.rpc_url_internal,
     network_name                |-> n.name,
     network_native_asset_symbol |-> IF "native_asset" \in DOMAIN n
                                     THEN n.native_asset.symbol ELSE Null,
     network_explorer_home_url   |-> n.explorer_home_url]

Carries(record, n) ==
    /\ record.name = "add_custom_evm"
    /\ \A f \in DOMAIN NetworkFields(n) : record.params[f] = NetworkFields(n)[f]

\* C2 as stated: an addEthereumChain event whose values list holds n
\* networks dispatches n add_custom_evm records, the i-th carrying the
\* fields of the i-th network.
C2_OneRecordPerNetwork ==
    handled.kind = "addEthereumChain" =>
        /\ Len(dispatched) = Len(handled.data.values)
        /\ \A i \in Indices : Carries(dispatched[i], handled.data.values[i])

\* C2 amended: an addEthereumChain event whose values list is not empty
\* dispatches exactly one add_custom_evm record, carrying the fields of the
\* first network of the list; with an empty list the handler throws and
\* dispatches nothing.
C2_OneRecordForFirstNetwork ==
    handled.kind = "addEthereumChain" =>
        IF Len(handled.data.values) = 0
        THEN outcome = "threw" /\ dispatched = <<>>
        ELSE /\ outcome = "returned"
             /\ Len(dispatched) = 1
             /\ Carries(dispatched[1], handled.data.values[1])

\* two different networks added at once, one record dispatched
C2_Witness ==
    /\ handled.kind = "addEthereumChain"
    /\ Len(handled.data.values) = 2
    /\ handled.data.values[1] # handled.data.values[2]
    /\ Len(dispatched) = 1

\* C3 as stated: every dispatched record has a request_name equal to the
\* name given to sendToMetabase and to the fixed name of the rule that
\* built it, and a dappConnection, screenView or daylightAction event, and a
\* transactionSent event whose handler ran to its end, dispatches exactly
\* one record.
C3_RequestNameIsRuleName ==
    /\ \A i \in Indices :
          /\ dispatched[i].params.request_name = dispatched[i].name
          /\ dispatched[i].name = RuleName[handled.kind]
    /\ handled.kind \in {"dappConnection", "screenView", "daylightAction"}
          => Len(dispatched) = 1
    /\ IsResumed /\ outcome = "returned" => Len(dispatched) = 1

ChangedKeys(state, prevState) == {k \in Keys : state[k] # prevState[k]}

\* the records dispatched for key k
RecordsFor(k) == {i \in Indices : dispatched[i].params.dapp_domain = k}

\* C4: the callback of a globalPreferencesChange event with snapshots
\* (state, prevState) dispatches one metamask_mode record per key whose flag
\* changed: enabled true for a key that went false -> true, enabled false
\* for one that went true -> false, none for a key that did not change.
C4_OneRecordPerChangedKey ==
    handled.kind = "idleCallback" =>
        LET state     == handled.data.state
            prevState == handled.data.prevState
        IN  /\ outcome = "returned"
            /\ Len(dispatched) = Cardinality(ChangedKeys(state, prevState))
            /\ \A i \in Indices : dispatched[i].name = "metamask_mode"
            /\ \A k \in Keys :
                  IF state[k] = prevState[k] THEN RecordsFor(k) = {}
                  ELSE /\ Cardinality(RecordsFor(k)) = 1
                       /\ \A i \in RecordsFor(k) :
                             dispatched[i].params.enabled =
                                 (IF state[k] THEN "true" ELSE "false")

\* one key enabled and another disabled by the same change
C4_Witness ==
    /\ handled.kind = "idleCallback"
    /\ Len(dispatched) = 2
    /\ dispatched[1].params.enabled = "true"
    /\ dispatched[2].params.enabled = "false"

\* the wallet holds no record, or no group holds the address
LookupFails(address) == ~walletLoaded \/ GroupOfAddress[address] = Null

\* the address whose provider the last step had to look up, Undefined if
\* none: a signing event not suppressed whose initiator parses, a
\* transaction with its chainId and gasLimit
LookedUp ==
    CASE handled.kind = "dappConnection" -> handled.data.address
      [] handled.kind = "screenView" -> Get(handled.data, "address")
      [] IsSign /\ handled.data.initiator # INTERNAL_ORIGIN
             /\ CanParse(handled.data.initiator) -> handled.data.address
      [] IsResumed /\ {"chainId", "gasLimit"} \subseteq DOMAIN handled.data.transaction
             -> handled.data.transaction.from
      [] OTHER -> Undefined

\* C5: when the provider lookup for the address of a dappConnection,
\* screenView, signing or transactionSent event fails, the handler still
\* ends normally and dispatches its record, with wallet_provider null.
C5_LookupFailureStillDispatches ==
    (LookedUp # Undefined /\ LookupFails(LookedUp)) =>
        /\ outcome = "returned"
        /\ Len(dispatched) = 1
        /\ dispatched[1].name = RuleName[handled.kind]
        /\ dispatched[1].params.wallet_address = LookedUp
        /\ dispatched[1].params.wallet_provider = Null

\* a transaction sent from an address of no group, the wallet loaded
C5_Witness ==
    /\ IsResumed
    /\ walletLoaded
    /\ handled.data.transaction.from = "0xB"
    /\ Len(dispatched) = 1

\* C6 as stated: no run of a translator ends with an exception or a rejected
\* promise, whatever the payload.
C6_NoTranslatorRaises == outcome \notin {"threw", "rejected"}

NonIdentityRules ==
    {"dapp_connection", "screen_view", "signed_transaction", "signed_message"}

IdentityRules == {"add_custom_evm", "metamask_mode"}

\* C7: the user_id of a dapp_connection, screen_view, signed_transaction or
\* signed_message record is null and that of a daylight_action record is
\* what the event itself gave, whoever the session's user is; the user_id of
\* an add_custom_evm or metamask_mode record is the session's user at the
\* step that builds the record (null without a user).
C7_UserIdOnlyForIdentityRules ==
    \A i \in Indices :
        LET record == dispatched[i]
        IN  /\ record.name \in NonIdentityRules => record.params.user_id = Null
            /\ record.name = "daylight_action" =>
                  record.params.user_id =
                      (IF "userId" \in DOMAIN handled.data
                       THEN handled.data.userId ELSE Null)
            /\ record.name \in IdentityRules =>
                  record.params.user_id = (IF user = Undefined THEN Null ELSE user)

\* a dapp connection while a user is logged in
C7_Witness ==
    /\ handled.kind = "dappConnection"
    /\ user = "u1"
    /\ Len(dispatched) = 1
    /\ dispatched[1].params.user_id = Null

\* C8: a signed_transaction record has context "Extension" and dapp_domain
\* null when the initiator's origin is the extension's own origin, and
\* context "External Dapp" and dapp_domain the origin otherwise; the same
\* holds of a signed_message record.
C8_ContextAgreesWithDappDomain ==
    (IsResumed \/ IsSign) =>
        \A i \in Indices :
            LET params == dispatched[i].params
                origin == ParseURL(handled.data.initiator).origin
            IN  /\ origin = LocationOrigin =>
                      params.context = "Extension" /\ params.dapp_domain = Null
                /\ origin # LocationOrigin =>
                      params.context = "External Dapp" /\ params.dapp_domain = origin
                /\ params.context = "Extension" <=> params.dapp_domain = Null

\* a transaction sent from a page of the extension
C8_Witness ==
    /\ IsResumed
    /\ handled.data.initiator = "chrome-extension://ext/popup.html"
    /\ Len(dispatched) = 1
    /\ dispatched[1].params.context = "Extension"

\* C9: the screen_name of a signed_transaction record is "Transaction
\* Request" when the initiator string equals its own origin and the URL path
\* of the initiator otherwise; an origin followed by "/", a query or a
\* fragment is not equal to the origin and has the path "/".
C9_ScreenNameOfTransaction ==
    (IsResumed /\ outcome = "returned") =>
        LET initiator == handled.data.initiator
            url       == ParseURL(initiator)
            name      == dispatched[1].params.screen_name
        IN  /\ initiator = url.origin => name = "Transaction Request"
            /\ initiator # url.origin => name = url.pathname
            /\ initiator = "https://dapp.com" => name = "Transaction Request"
            /\ initiator \in {"https://dapp.com/", "https://dapp.com?q=1",
                              "https://dapp.com#f"} => name = "/"
            /\ initiator = "https://dapp.com/swap" => name = "/swap"

\* a transaction whose initiator is the origin and a bare "/"
C9_Witness ==
    /\ IsResumed
    /\ handled.data.initiator = "https://dapp.com/"
    /\ Len(dispatched) = 1
    /\ dispatched[1].params.screen_name = "/"

\* the step is the globalPreferencesChange handler
PreferencesHandlerStep ==
    /\ nEvents' = nEvents + 1
    /\ handled'.kind = "globalPreferencesChange"

\* the step runs the callback submitted first, on its own snapshots
HeadCallbackRuns ==
    /\ idleQueue # <<>>
    /\ idleQueue' = Tail(idleQueue)
    /\ handled' = [kind |-> "idleCallback", data |-> Head(idleQueue)]
    /\ Len(dispatched') = Cardinality(ChangedKeys(Head(idleQueue).state,
                                                  Head(idleQueue).prevState))
    /\ \A i \in 1..Len(dispatched') :
          LET k == dispatched'[i].params.dapp_domain
          IN  Head(idleQueue).state[k] # Head(idleQueue).prevState[k]

\* C10: the globalPreferencesChange handler dispatches nothing and adds one
\* callback, holding the event's own (state, prevState), to those waiting;
\* a waiting callback leaves only by running, on its own snapshots, and
\* metamask_mode records are dispatched by such a run only; while a callback
\* waits, the one submitted first eventually runs.
C10_DeferredToIdle ==
    /\ [][PreferencesHandlerStep =>
            /\ dispatched' = <<>>
            /\ idleQueue' = Append(idleQueue, handled'.data)
            /\ handled'.data = [state |-> prefs', prevState |-> prefs]]_vars
    /\ [][idleQueue' # idleQueue => PreferencesHandlerStep \/ HeadCallbackRuns]_vars
    /\ [][\A i \in 1..Len(dispatched') :
            dispatched'[i].name = "metamask_mode" => HeadCallbackRuns]_vars
    /\ []<>(idleQueue = <<>>)

\* the record of a later event is dispatched while a callback still waits
C10_Witness ==
    /\ Len(idleQueue) = 1
    /\ handled.kind = "dappConnection"
    /\ Len(dispatched) = 1

====
